---- MODULE Spec2Model ----
(***************************************************************************)
(* Model of the Hyperspeedcube puzzle controller                           *)
(* (src/src/puzzle/controller.rs) over the generic puzzle algebra of       *)
(* src/src/common.rs.                                                      *)
(*                                                                         *)
(* The concrete puzzle families (the orientation group, the piece set, the *)
(* twists and the fallible Puzzle::twist wrapper) are not part of the      *)
(* sources at hand; they are instantiated here by a small topology with a  *)
(* non-commutative orientation group that has rotations with orbits of     *)
(* different lengths: five pieces in two blocks, {1, 2, 3} and {4, 5},     *)
(* acted on by the permutations that keep each block (S3 x C2).            *)
(***************************************************************************)
EXTENDS Integers, Sequences, FiniteSets, TLC

(***************************************************************************)
(* Bounds of the model.                                                    *)
(***************************************************************************)
\* Longest twist queue the model lets twist/undo/redo build.
MaxQueue == 2
\* Longest undo history the model lets twist build.
MaxHist == 2
\* Largest count passed to scramble_n.
MaxScramble == 1
\* Longest twist sequence followed by the round-trip observer.
MaxSeq == 2
\* Longest twist queue built where the frame increments are compared.
LongQueue == 4
\* How far a stored decoration value may leave 0.0..=1.0, in units of 1.0.
MaxDrift == 1

(***************************************************************************)
(* Orientation algebra and topology (the puzzle-family contract).          *)
(***************************************************************************)
Pieces == {1, 2, 3, 4, 5}

\* OrientationTrait: the permutations of the pieces that keep each block,
\* written as the images of 1 .. 5: a permutation of 1, 2, 3 followed by one
\* of 4, 5.
Orientations ==
    {a \o b : a \in {<<1, 2, 3>>, <<1, 3, 2>>, <<2, 1, 3>>,
                      <<2, 3, 1>>, <<3, 1, 2>>, <<3, 2, 1>>},
              b \in {<<4, 5>>, <<5, 4>>}}

\* Default::default() of an orientation: the solved orientation.
identity == [p \in Pieces |-> p]

\* Mul<Orientation> for Orientation: a * b.
mul(a, b) == [p \in Pieces |-> a[b[p]]]

\* Mul<Piece> for Orientation: rotation * piece.
act(a, p) == a[p]

\* OrientationTrait::rev.
rev(a) == [p \in Pieces |-> CHOOSE q \in Pieces : a[q] = p]

\* TwistTrait::rev / reverse_twist: the same seeds, the reverse rotation.
reverse_twist(t) == [rotation |-> rev(t.rotation), initial_pieces |-> t.initial_pieces]

\* The twists the controller is driven with.  U is a three-cycle of the first
\* block, R swaps pieces 1 and 2 (it is its own reverse) and names the fixed
\* piece 3 as a seed as well; X names a piece the topology does not have.
U == [rotation |-> <<2, 3, 1, 4, 5>>, initial_pieces |-> <<1>>]
Ui == reverse_twist(U)
R == [rotation |-> <<2, 1, 3, 4, 5>>, initial_pieces |-> <<1, 3>>]
X == [rotation |-> <<2, 3, 1, 4, 5>>, initial_pieces |-> <<6>>]
Twists == {U, Ui, R, X}

\* Puzzle::new(ty): every piece in the default orientation.
Puzzle_new == [p \in Pieces |-> identity]

\* is_solved: every piece equals the identity orientation.
puzzle_is_solved(s) == \A p \in Pieces : s[p] = identity

(***************************************************************************)
(* Twist application: PuzzleTrait::swap / cycle / twist (common.rs).       *)
(***************************************************************************)
swap(s, pos1, pos2, rot) ==
    LET tmp == s[pos1]
        s1 == [s EXCEPT ![pos1] = mul(rot, s[pos2])]
    IN  [s1 EXCEPT ![pos2] = mul(rev(rot), tmp)]

RECURSIVE cycle_loop(_, _, _, _)
cycle_loop(s, start, prev, rot) ==
    LET current == act(rot, prev)
    IN  IF current = start
        THEN s
        ELSE cycle_loop(swap(s, current, prev, rot), start, current, rot)

cycle(s, start, rot) == cycle_loop(s, start, start, rev(rot))

\* The number of times the loop of cycle calls swap before it breaks.
RECURSIVE cycle_swaps(_, _, _)
cycle_swaps(start, prev, rot) ==
    LET current == act(rot, prev)
    IN  IF current = start THEN 0 ELSE 1 + cycle_swaps(start, current, rot)

\* A count that also takes the step back onto the start for a swap.
swaps_of_cycle_with_start(start, rot) == cycle_swaps(start, start, rev(rot)) + 1

\* The number of calls of swap that cycle(start, rot) makes.
swaps_of_cycle(start, rot) == cycle_swaps(start, start, rev(rot))

RECURSIVE twist_seeds(_, _, _)
twist_seeds(s, seeds, rot) ==
    IF seeds = <<>>
    THEN s
    ELSE twist_seeds(cycle(s, Head(seeds), rot), Tail(seeds), rot)

PuzzleTrait_twist(s, t) == twist_seeds(s, t.initial_pieces, t.rotation)

\* TwistTrait::pieces: for each seed, the seed and then rotation * seed,
\* rotation * rotation * seed, ... for as long as the seed does not come back.
RECURSIVE successors_until(_, _, _)
successors_until(start, x, rot) ==
    IF x = start THEN <<>> ELSE <<x>> \o successors_until(start, act(rot, x), rot)

RECURSIVE pieces_from(_, _)
pieces_from(seeds, rot) ==
    IF seeds = <<>>
    THEN <<>>
    ELSE (<<Head(seeds)>> \o successors_until(Head(seeds), act(rot, Head(seeds)), rot))
         \o pieces_from(Tail(seeds), rot)

\* pieces that yields the seeds alone.
pieces_seeds_only(t) == t.initial_pieces

pieces(t) == pieces_from(t.initial_pieces, t.rotation)

\* Whether the topology defines the twist (every seed is one of its pieces).
Supported(t) == \A i \in 1..Len(t.initial_pieces) : t.initial_pieces[i] \in Pieces

\* Puzzle::twist: the fallible wrapper; an unsupported twist is rejected
\* and the puzzle is left as it was.
Puzzle_twist(s, t) ==
    IF Supported(t)
    THEN [ok |-> TRUE, puzzle |-> PuzzleTrait_twist(s, t)]
    ELSE [ok |-> FALSE, puzzle |-> s]

(***************************************************************************)
(* f32 arithmetic of the animation timing.  A finite value is a fixed-point *)
(* integer (ONE stands for 1.0); NaN and +infinity are kept apart so that   *)
(* division by zero behaves as in IEEE arithmetic.                          *)
(***************************************************************************)
ONE == 1200

Fin(v) == <<"fin", v>>
NaN == <<"nan", 0>>
Inf == <<"inf", 0>>

\* MIN_TWIST_DELTA = 1.0 / 3.0
MIN_TWIST_DELTA == ONE \div 3

\* delta.as_secs_f32() / prefs.twist_duration, both given in twelfths of a
\* second; delta is a Duration and so never negative.
base_speed(delta, twist_duration) ==
    IF twist_duration = 0
    THEN (IF delta = 0 THEN NaN ELSE Inf)
    ELSE Fin((delta * ONE) \div twist_duration)

\* ((len - 1) as f32 * EXP_TWIST_FACTOR).exp(), in hundredths:
\* exp(0), exp(0.5), exp(1), exp(1.5), exp(2), ...
exp_half(k) ==
    CASE k = 0 -> 100
      [] k = 1 -> 165
      [] k = 2 -> 272
      [] k = 3 -> 448
      [] OTHER -> 739

\* speed_mod that takes no account of the queue.
speed_mod_static(dynamic_twist_speed, len) == 100

speed_mod(dynamic_twist_speed, len) ==
    IF dynamic_twist_speed THEN exp_half(len - 1) ELSE 100

\* base_speed * speed_mod
scaled(base, mod) ==
    IF base[1] = "fin" THEN Fin((base[2] * mod) \div 100) ELSE base

\* The clamp without its lower end: a negative increment is kept.
clamp_keeps_negative(td) ==
    IF td[1] = "fin" /\ td[2] < MIN_TWIST_DELTA THEN td[2] ELSE ONE

\* The clamp turned around: an increment below MIN_TWIST_DELTA is replaced,
\* one of at least MIN_TWIST_DELTA is kept.
clamp_below_minimum(td) ==
    IF td[1] = "fin" /\ td[2] >= MIN_TWIST_DELTA THEN td[2] ELSE ONE

\* if !(0.0..MIN_TWIST_DELTA).contains(&twist_delta) { twist_delta = 1.0 }
clamp_twist_delta(td) ==
    IF td[1] = "fin" /\ 0 <= td[2] /\ td[2] < MIN_TWIST_DELTA THEN td[2] ELSE ONE

\* The stickers of the puzzle type: ty.stickers().
Stickers == {1, 2}

\* StickerDecorAnim::default
StickerDecorAnim_default == [selected |-> ONE, hovered |-> 0]

(***************************************************************************)
(* The controller.                                                         *)
(***************************************************************************)
VARIABLES
    displayed,              \* puzzle before the twist being animated
    next_displayed,         \* declared as the puzzle after that twist
    latest,                 \* puzzle with every twist applied
    twist_queue,            \* twists that lead from displayed to latest
    queue_max,              \* longest queue seen since it was last empty
    progress,               \* progress of the current twist, 0 .. ONE
    is_unsaved,
    scramble_state,         \* "None", "Partial", "Full", "Solved"
    scramble,               \* scramble twists
    undo_buffer,
    redo_buffer,
    cached_geometry,        \* <<>> (None) or <<snapshot>> (Some)
    cached_geometry_params, \* <<>> (None) or <<params>> (Some)
    sticker_animation_states, \* per sticker: progress toward selected and hovered
    panicked,               \* an expect or assert_eq of the controller fired
    last_call,              \* the most recent call and what it returned
    trues,                  \* check_just_solved() = true since the last reset or scramble
    rt                      \* observer of a twist / undo / redo round trip

ctl_vars == <<displayed, next_displayed, latest, twist_queue, queue_max, progress,
              is_unsaved, scramble_state, scramble, undo_buffer, redo_buffer,
              cached_geometry, cached_geometry_params, sticker_animation_states>>

vars == <<displayed, next_displayed, latest, twist_queue, queue_max, progress,
          is_unsaved, scramble_state, scramble, undo_buffer, redo_buffer,
          cached_geometry, cached_geometry_params, sticker_animation_states,
          panicked, last_call, trues, rt>>

\* The controller as one value: what `self` is on entry to a method.
Self ==
    [displayed |-> displayed, next_displayed |-> next_displayed, latest |-> latest,
     twist_queue |-> twist_queue, queue_max |-> queue_max, progress |-> progress,
     is_unsaved |-> is_unsaved, scramble_state |-> scramble_state,
     scramble |-> scramble, undo_buffer |-> undo_buffer, redo_buffer |-> redo_buffer,
     cached_geometry |-> cached_geometry,
     cached_geometry_params |-> cached_geometry_params,
     sticker_animation_states |-> sticker_animation_states]

\* What `self` is when the method returns.
Becomes(c) ==
    /\ displayed' = c.displayed
    /\ next_displayed' = c.next_displayed
    /\ latest' = c.latest
    /\ twist_queue' = c.twist_queue
    /\ queue_max' = c.queue_max
    /\ progress' = c.progress
    /\ is_unsaved' = c.is_unsaved
    /\ scramble_state' = c.scramble_state
    /\ scramble' = c.scramble
    /\ undo_buffer' = c.undo_buffer
    /\ redo_buffer' = c.redo_buffer
    /\ cached_geometry' = c.cached_geometry
    /\ cached_geometry_params' = c.cached_geometry_params
    /\ sticker_animation_states' = c.sticker_animation_states

\* PuzzleController::new
new ==
    [displayed |-> Puzzle_new, next_displayed |-> Puzzle_new, latest |-> Puzzle_new,
     twist_queue |-> <<>>, queue_max |-> 0, progress |-> 0,
     is_unsaved |-> FALSE, scramble_state |-> "None",
     scramble |-> <<>>, undo_buffer |-> <<>>, redo_buffer |-> <<>>,
     cached_geometry |-> <<>>, cached_geometry_params |-> <<>>,
     sticker_animation_states |-> [sticker \in Stickers |-> StickerDecorAnim_default]]

\* reset that carries the geometry cache over to the new controller.
reset_keeps_cache(c) ==
    [new EXCEPT !.cached_geometry = c.cached_geometry,
                !.cached_geometry_params = c.cached_geometry_params]

\* PuzzleController::reset
reset(c) == new

Front(q) == SubSeq(q, 1, Len(q) - 1)
Last(q) == q[Len(q)]

\* drain with the queue taken from its back: the last queued twist first.
RECURSIVE drain_back_first(_, _)
drain_back_first(puzzle, queue) ==
    IF queue = <<>>
    THEN [panic |-> FALSE, puzzle |-> puzzle]
    ELSE LET r == Puzzle_twist(puzzle, Last(queue))
         IN  IF r.ok THEN drain_back_first(r.puzzle, Front(queue))
                     ELSE [panic |-> TRUE, puzzle |-> puzzle]

\* The drain loop of catch_up: each queued twist, front first, is applied to
\* displayed; a rejected twist fires the expect.
RECURSIVE drain(_, _)
drain(puzzle, queue) ==
    IF queue = <<>>
    THEN [panic |-> FALSE, puzzle |-> puzzle]
    ELSE LET r == Puzzle_twist(puzzle, Head(queue))
         IN  IF r.ok THEN drain(r.puzzle, Tail(queue))
                     ELSE [panic |-> TRUE, puzzle |-> puzzle]

\* catch_up that leaves progress where the animation was.
catch_up_keeps_progress(c) ==
    LET d == drain(c.displayed, c.twist_queue)
        c1 == [c EXCEPT !.displayed = d.puzzle, !.twist_queue = <<>>]
    IN  IF d.panic
        THEN [c |-> c1, panic |-> TRUE]
        ELSE [c |-> c1, panic |-> (d.puzzle # c.latest)]

\* PuzzleController::catch_up
catch_up(c) ==
    LET d == drain(c.displayed, c.twist_queue)
        c1 == [c EXCEPT !.displayed = d.puzzle, !.twist_queue = <<>>]
    IN  IF d.panic
        THEN [c |-> c1, panic |-> TRUE]
        ELSE [c |-> [c1 EXCEPT !.progress = 0],
              panic |-> (d.puzzle # c.latest)]

\* undo that queues the popped twist itself instead of its reverse.
undo_enqueues_unreversed(c) ==
    IF c.undo_buffer # <<>>
    THEN LET twist == Last(c.undo_buffer)
             c1 == [c EXCEPT !.undo_buffer = Front(c.undo_buffer),
                             !.is_unsaved = TRUE]
             r == Puzzle_twist(c1.latest, reverse_twist(twist))
         IN  IF ~r.ok
             THEN [c |-> c1, ret |-> "unsupported twist"]
             ELSE [c |-> [c1 EXCEPT !.latest = r.puzzle,
                                    !.twist_queue = Append(c1.twist_queue, twist),
                                    !.redo_buffer = Append(c1.redo_buffer, twist)],
                   ret |-> "Ok"]
    ELSE [c |-> c, ret |-> "Nothing to undo"]

\* undo that marks the controller unsaved before it looks at the history.
undo_marks_first(c) ==
    LET c0 == [c EXCEPT !.is_unsaved = TRUE]
    IN  IF c0.undo_buffer # <<>>
        THEN LET twist == Last(c0.undo_buffer)
                 c1 == [c0 EXCEPT !.undo_buffer = Front(c0.undo_buffer)]
                 r == Puzzle_twist(c1.latest, reverse_twist(twist))
             IN  IF ~r.ok
                 THEN [c |-> c1, ret |-> "unsupported twist"]
                 ELSE [c |-> [c1 EXCEPT !.latest = r.puzzle,
                                        !.twist_queue = Append(c1.twist_queue, reverse_twist(twist)),
                                        !.redo_buffer = Append(c1.redo_buffer, twist)],
                       ret |-> "Ok"]
        ELSE [c |-> c0, ret |-> "Nothing to undo"]

\* PuzzleController::has_undo
\* undo that pops the entry and queues its reverse but leaves latest as it was.
undo_keeps_latest(c) ==
    IF c.undo_buffer # <<>>
    THEN LET twist == Last(c.undo_buffer)
             c1 == [c EXCEPT !.undo_buffer = Front(c.undo_buffer),
                             !.is_unsaved = TRUE]
             r == Puzzle_twist(c1.latest, reverse_twist(twist))
         IN  IF ~r.ok
             THEN [c |-> c1, ret |-> "unsupported twist"]
             ELSE [c |-> [c1 EXCEPT !.twist_queue = Append(c1.twist_queue, reverse_twist(twist)),
                                    !.redo_buffer = Append(c1.redo_buffer, twist)],
                   ret |-> "Ok"]
    ELSE [c |-> c, ret |-> "Nothing to undo"]

has_undo(c) == c.undo_buffer # <<>>

\* PuzzleController::undo
undo(c) ==
    IF c.undo_buffer # <<>>
    THEN LET twist == Last(c.undo_buffer)
             c1 == [c EXCEPT !.undo_buffer = Front(c.undo_buffer),
                             !.is_unsaved = TRUE]
             r == Puzzle_twist(c1.latest, reverse_twist(twist))
         IN  IF ~r.ok
             THEN [c |-> c1, ret |-> "unsupported twist"]
             ELSE [c |-> [c1 EXCEPT !.latest = r.puzzle,
                                    !.twist_queue = Append(c1.twist_queue, reverse_twist(twist)),
                                    !.redo_buffer = Append(c1.redo_buffer, twist)],
                   ret |-> "Ok"]
    ELSE [c |-> c, ret |-> "Nothing to undo"]

\* redo that reads the top of the redo stack without popping it.
redo_keeps_entry(c) ==
    IF c.redo_buffer # <<>>
    THEN LET twist == Last(c.redo_buffer)
             c1 == [c EXCEPT !.is_unsaved = TRUE]
             r == Puzzle_twist(c1.latest, twist)
         IN  IF ~r.ok
             THEN [c |-> c1, ret |-> "unsupported twist"]
             ELSE [c |-> [c1 EXCEPT !.latest = r.puzzle,
                                    !.twist_queue = Append(c1.twist_queue, twist),
                                    !.undo_buffer = Append(c1.undo_buffer, twist)],
                   ret |-> "Ok"]
    ELSE [c |-> c, ret |-> "Nothing to redo"]

\* redo that applies the reverse of the popped twist, as undo does.
redo_reversed(c) ==
    IF c.redo_buffer # <<>>
    THEN LET twist == Last(c.redo_buffer)
             c1 == [c EXCEPT !.redo_buffer = Front(c.redo_buffer),
                             !.is_unsaved = TRUE]
             r == Puzzle_twist(c1.latest, reverse_twist(twist))
         IN  IF ~r.ok
             THEN [c |-> c1, ret |-> "unsupported twist"]
             ELSE [c |-> [c1 EXCEPT !.latest = r.puzzle,
                                    !.twist_queue = Append(c1.twist_queue, reverse_twist(twist)),
                                    !.undo_buffer = Append(c1.undo_buffer, twist)],
                   ret |-> "Ok"]
    ELSE [c |-> c, ret |-> "Nothing to redo"]

\* PuzzleController::redo
redo(c) ==
    IF c.redo_buffer # <<>>
    THEN LET twist == Last(c.redo_buffer)
             c1 == [c EXCEPT !.redo_buffer = Front(c.redo_buffer),
                             !.is_unsaved = TRUE]
             r == Puzzle_twist(c1.latest, twist)
         IN  IF ~r.ok
             THEN [c |-> c1, ret |-> "unsupported twist"]
             ELSE [c |-> [c1 EXCEPT !.latest = r.puzzle,
                                    !.twist_queue = Append(c1.twist_queue, twist),
                                    !.undo_buffer = Append(c1.undo_buffer, twist)],
                   ret |-> "Ok"]
    ELSE [c |-> c, ret |-> "Nothing to redo"]

\* The comparison without the reversal: the last entry against the twist itself.
cancels_same(c, t) ==
    c.undo_buffer # <<>> /\ Last(c.undo_buffer) = t

\* self.undo_buffer.last() == Some(&self.reverse_twist(twist))
cancels_last(c, t) ==
    c.undo_buffer # <<>> /\ Last(c.undo_buffer) = reverse_twist(t)

\* twist that leaves the redo history as it is.
twist_keeps_redo(c, t) ==
    LET c1 == [c EXCEPT !.is_unsaved = TRUE]
    IN  IF cancels_last(c1, t)
        THEN undo(c1)
        ELSE LET r == Puzzle_twist(c1.latest, t)
             IN  IF ~r.ok
                 THEN [c |-> c1, ret |-> "unsupported twist"]
                 ELSE [c |-> [c1 EXCEPT !.latest = r.puzzle,
                                        !.twist_queue = Append(c1.twist_queue, t),
                                        !.undo_buffer = Append(c1.undo_buffer, t)],
                       ret |-> "Ok"]

\* twist that does not mark the controller unsaved.
twist_unmarked(c, t) ==
    LET c1 == [c EXCEPT !.redo_buffer = <<>>]
    IN  IF cancels_last(c1, t)
        THEN undo(c1)
        ELSE LET r == Puzzle_twist(c1.latest, t)
             IN  IF ~r.ok
                 THEN [c |-> c1, ret |-> "unsupported twist"]
                 ELSE [c |-> [c1 EXCEPT !.latest = r.puzzle,
                                        !.twist_queue = Append(c1.twist_queue, t),
                                        !.undo_buffer = Append(c1.undo_buffer, t)],
                       ret |-> "Ok"]

\* PuzzleController::twist
twist(c, t) ==
    LET c1 == [c EXCEPT !.is_unsaved = TRUE, !.redo_buffer = <<>>]
    IN  IF cancels_last(c1, t)
        THEN undo(c1)
        ELSE LET r == Puzzle_twist(c1.latest, t)
             IN  IF ~r.ok
                 THEN [c |-> c1, ret |-> "unsupported twist"]
                 ELSE [c |-> [c1 EXCEPT !.latest = r.puzzle,
                                        !.twist_queue = Append(c1.twist_queue, t),
                                        !.undo_buffer = Append(c1.undo_buffer, t)],
                       ret |-> "Ok"]

\* TwistMetric: a metric that merges consecutive twists and one that does not.
Metrics == {"Merging", "Single"}

\* can_combine_twists(prev, curr, metric): the topology's policy for counting
\* two consecutive twists as one move; prev is <<>> (None) or <<twist>>.
\* Here the merging metric combines two twists grown from the same seeds.
can_combine_twists(prev, curr, metric) ==
    /\ metric = "Merging"
    /\ prev # <<>>
    /\ prev[1].initial_pieces = curr.initial_pieces

\* twists.zip(prev_twists).filter(..).count(): prev_twists is None followed
\* by the twists themselves.
RECURSIVE count_uncombined(_, _, _)
count_uncombined(twists, prev_twists, metric) ==
    IF twists = <<>> \/ prev_twists = <<>>
    THEN 0
    ELSE (IF can_combine_twists(Head(prev_twists), Head(twists), metric) THEN 0 ELSE 1)
         + count_uncombined(Tail(twists), Tail(prev_twists), metric)

\* twist_count that goes on into the redo history.
twist_count_with_redo(c, metric) ==
    LET twists == c.undo_buffer \o c.redo_buffer
        prev_twists == <<<<>>>> \o [i \in 1..Len(twists) |-> <<twists[i]>>]
    IN  count_uncombined(twists, prev_twists, metric)

\* PuzzleController::twist_count
twist_count(c, metric) ==
    LET twists == c.undo_buffer
        prev_twists == <<<<>>>> \o [i \in 1..Len(twists) |-> <<twists[i]>>]
    IN  count_uncombined(twists, prev_twists, metric)

\* The topology's full-scramble move count.
scramble_moves_count == 2

\* scramble_n with the loop body the source has commented out, for one twist:
\* a twist is made while undo_buffer is shorter than n.
scramble_n_twists(c, n) ==
    LET c1 == reset(c)
        c2 == IF Len(c1.undo_buffer) < n THEN twist(c1, U).c ELSE c1
        cu == catch_up(c2)
    IN  IF cu.panic
        THEN [c |-> cu.c, ret |-> "panic", panic |-> TRUE]
        ELSE [c |-> [cu.c EXCEPT !.scramble = cu.c.undo_buffer,
                                 !.undo_buffer = <<>>,
                                 !.scramble_state = "Partial"],
              ret |-> "Ok", panic |-> FALSE]

\* scramble_n without the reset: the history of the calls before it is kept.
scramble_n_keeps_history(c, n) ==
    LET cu == catch_up(c)
    IN  IF cu.panic
        THEN [c |-> cu.c, ret |-> "panic", panic |-> TRUE]
        ELSE [c |-> [cu.c EXCEPT !.scramble = cu.c.undo_buffer,
                                 !.undo_buffer = <<>>,
                                 !.scramble_state = "Partial"],
              ret |-> "Ok", panic |-> FALSE]

\* PuzzleController::scramble_n.  The loop that would add random twists
\* breaks on its first iteration, so no twist is applied for any n.
scramble_n(c, n) ==
    LET c1 == reset(c)
        cu == catch_up(c1)
    IN  IF cu.panic
        THEN [c |-> cu.c, ret |-> "panic", panic |-> TRUE]
        ELSE [c |-> [cu.c EXCEPT !.scramble = cu.c.undo_buffer,
                                 !.undo_buffer = <<>>,
                                 !.scramble_state = "Partial"],
              ret |-> "Ok", panic |-> FALSE]

\* PuzzleController::scramble_full
scramble_full(c) ==
    LET c1 == reset(c)
        r == scramble_n(c1, scramble_moves_count)
    IN  IF r.ret # "Ok"
        THEN r
        ELSE [c |-> [r.c EXCEPT !.scramble_state = "Full"],
              ret |-> "Ok", panic |-> FALSE]

\* is_solved read from latest instead of displayed.
is_solved_latest(c) == puzzle_is_solved(c.latest)

\* PuzzleController::is_solved
is_solved(c) == puzzle_is_solved(c.displayed)

\* check_just_solved that reports the solve without recording it.
check_never_latches(c) ==
    LET has_been_scrambled == c.scramble_state \in {"Partial", "Full"}
    IN  IF has_been_scrambled /\ puzzle_is_solved(c.displayed)
        THEN [c |-> c, ret |-> "true"]
        ELSE [c |-> c, ret |-> "false"]

\* check_just_solved that asks only whether the puzzle is solved, not whether
\* it was scrambled.
check_ignores_scramble(c) ==
    IF is_solved(c)
    THEN [c |-> [c EXCEPT !.scramble_state = "Solved"], ret |-> "true"]
    ELSE [c |-> c, ret |-> "false"]

\* PuzzleController::check_just_solved
check_just_solved(c) ==
    LET has_been_scrambled == c.scramble_state \in {"Partial", "Full"}
    IN  IF has_been_scrambled /\ is_solved(c)
        THEN [c |-> [c EXCEPT !.scramble_state = "Solved"], ret |-> "true"]
        ELSE [c |-> c, ret |-> "false"]

\* TWIST_INTERPOLATION_FN = interpolate::COSINE, kept as the function applied
\* to its argument.
TWIST_INTERPOLATION_FN(t) == <<"COSINE", t>>

\* PuzzleController::current_twist: <<>> is None, <<x>> is Some(x).
current_twist(c) ==
    IF c.twist_queue # <<>>
    THEN <<[twist |-> c.twist_queue[1], progress |-> TWIST_INTERPOLATION_FN(c.progress)]>>
    ELSE <<>>

\* commands::PARTIAL_SCRAMBLE_MOVE_COUNT_MAX, a usize.
PARTIAL_SCRAMBLE_MOVE_COUNT_MAX == 1

\* PuzzleController::has_been_fully_scrambled
has_been_fully_scrambled(c) ==
    CASE c.scramble_state = "None" -> FALSE
      [] c.scramble_state = "Partial" -> FALSE
      [] c.scramble_state = "Full" -> TRUE
      [] c.scramble_state = "Solved" ->
             \/ Len(c.scramble) >= scramble_moves_count
             \/ Len(c.scramble) > PARTIAL_SCRAMBLE_MOVE_COUNT_MAX

\* PuzzleController::load_file.  Its body is todo!(), which panics for every
\* path before anything is read or built.
load_file(path) == [ret |-> "panic", panic |-> TRUE]

\* PuzzleController::save_file.  The match on latest has one arm, Rubiks3D,
\* and it bails; the path is not used and nothing is assigned.
save_file(c, path) ==
    [c |-> c, ret |-> "log files only supported for Rubik's 4D", panic |-> FALSE]

\* base_speed * speed_mod, before the clamp, with len twists in the queue.
raw_twist_delta(len, delta, twist_duration, dynamic_twist_speed) ==
    scaled(base_speed(delta, twist_duration), speed_mod(dynamic_twist_speed, len))

\* twist_delta as it is added to progress.
twist_delta(len, delta, twist_duration, dynamic_twist_speed) ==
    clamp_twist_delta(raw_twist_delta(len, delta, twist_duration, dynamic_twist_speed))

\* update_geometry that drops the cached geometry before it looks at the queue.
update_geometry_invalidates_first(c, delta, twist_duration, dynamic_twist_speed) ==
    LET c0 == [c EXCEPT !.cached_geometry = <<>>]
    IN  IF c0.twist_queue = <<>>
        THEN [c |-> [c0 EXCEPT !.queue_max = 0], panic |-> FALSE]
        ELSE LET len == Len(c0.twist_queue)
                 c1 == [c0 EXCEPT !.queue_max = IF c0.queue_max > len THEN c0.queue_max ELSE len]
                 c2 == [c1 EXCEPT !.progress = c1.progress +
                            twist_delta(len, delta, twist_duration, dynamic_twist_speed)]
             IN  IF c2.progress >= ONE
                 THEN LET r == Puzzle_twist(c2.displayed, Head(c2.twist_queue))
                          c3 == [c2 EXCEPT !.progress = ONE,
                                           !.twist_queue = Tail(c2.twist_queue)]
                      IN  IF ~r.ok
                          THEN [c |-> c3, panic |-> TRUE]
                          ELSE [c |-> [c3 EXCEPT !.displayed = r.puzzle, !.progress = 0],
                                panic |-> FALSE]
                 ELSE [c |-> c2, panic |-> FALSE]

\* update_geometry that takes the finished twist from the back of the queue.
update_geometry_pops_back(c, delta, twist_duration, dynamic_twist_speed) ==
    IF c.twist_queue = <<>>
    THEN [c |-> [c EXCEPT !.queue_max = 0], panic |-> FALSE]
    ELSE LET len == Len(c.twist_queue)
             c1 == [c EXCEPT !.cached_geometry = <<>>,
                             !.queue_max = IF c.queue_max > len THEN c.queue_max ELSE len]
             c2 == [c1 EXCEPT !.progress = c1.progress +
                        twist_delta(len, delta, twist_duration, dynamic_twist_speed)]
         IN  IF c2.progress >= ONE
             THEN LET r == Puzzle_twist(c2.displayed, Last(c2.twist_queue))
                      c3 == [c2 EXCEPT !.progress = ONE,
                                       !.twist_queue = Front(c2.twist_queue)]
                  IN  IF ~r.ok
                      THEN [c |-> c3, panic |-> TRUE]
                      ELSE [c |-> [c3 EXCEPT !.displayed = r.puzzle, !.progress = 0],
                            panic |-> FALSE]
             ELSE [c |-> c2, panic |-> FALSE]

\* update_geometry that, when the front twist completes, starts its animation
\* again instead of applying it.
update_geometry_restarts(c, delta, twist_duration, dynamic_twist_speed) ==
    IF c.twist_queue = <<>>
    THEN [c |-> [c EXCEPT !.queue_max = 0], panic |-> FALSE]
    ELSE LET len == Len(c.twist_queue)
             c1 == [c EXCEPT !.cached_geometry = <<>>,
                             !.queue_max = IF c.queue_max > len THEN c.queue_max ELSE len]
             c2 == [c1 EXCEPT !.progress = c1.progress +
                        twist_delta(len, delta, twist_duration, dynamic_twist_speed)]
         IN  IF c2.progress >= ONE
             THEN [c |-> [c2 EXCEPT !.progress = 0], panic |-> FALSE]
             ELSE [c |-> c2, panic |-> FALSE]

\* update_geometry that, when the front twist completes, applies every queued
\* twist to displayed instead of the front one alone.
update_geometry_drains(c, delta, twist_duration, dynamic_twist_speed) ==
    IF c.twist_queue = <<>>
    THEN [c |-> [c EXCEPT !.queue_max = 0], panic |-> FALSE]
    ELSE LET len == Len(c.twist_queue)
             c1 == [c EXCEPT !.cached_geometry = <<>>,
                             !.queue_max = IF c.queue_max > len THEN c.queue_max ELSE len]
             c2 == [c1 EXCEPT !.progress = c1.progress +
                        twist_delta(len, delta, twist_duration, dynamic_twist_speed)]
         IN  IF c2.progress >= ONE
             THEN LET d == drain(c2.displayed, c2.twist_queue)
                      c3 == [c2 EXCEPT !.progress = ONE, !.twist_queue = <<>>]
                  IN  IF d.panic
                      THEN [c |-> c3, panic |-> TRUE]
                      ELSE [c |-> [c3 EXCEPT !.displayed = d.puzzle, !.progress = 0],
                            panic |-> FALSE]
             ELSE [c |-> c2, panic |-> FALSE]

\* PuzzleController::update_geometry
update_geometry(c, delta, twist_duration, dynamic_twist_speed) ==
    IF c.twist_queue = <<>>
    THEN [c |-> [c EXCEPT !.queue_max = 0], panic |-> FALSE]
    ELSE LET len == Len(c.twist_queue)
             c1 == [c EXCEPT !.cached_geometry = <<>>,
                             !.queue_max = IF c.queue_max > len THEN c.queue_max ELSE len]
             c2 == [c1 EXCEPT !.progress = c1.progress +
                        twist_delta(len, delta, twist_duration, dynamic_twist_speed)]
         IN  IF c2.progress >= ONE
             THEN LET r == Puzzle_twist(c2.displayed, Head(c2.twist_queue))
                      c3 == [c2 EXCEPT !.progress = ONE,
                                       !.twist_queue = Tail(c2.twist_queue)]
                  IN  IF ~r.ok
                      THEN [c |-> c3, panic |-> TRUE]
                      ELSE [c |-> [c3 EXCEPT !.displayed = r.puzzle, !.progress = 0],
                            panic |-> FALSE]
             ELSE [c |-> c2, panic |-> FALSE]

\* add_delta_toward_target: current and target are fixed-point values, delta
\* is an f32 quotient (finite, NaN or infinite); the value returned is the new
\* *current.
add_delta_toward_target(current, target, delta) ==
    IF current = target
    THEN current
    ELSE IF delta[1] # "fin"
    THEN target
    ELSE IF current + delta[2] < target
    THEN current + delta[2]
    ELSE IF current - delta[2] > target
    THEN current - delta[2]
    ELSE target

\* delta.as_secs_f32() / prefs.selection_fade_duration (or hover_fade_duration)
max_delta(delta, fade_duration) == base_speed(delta, fade_duration)

\* The body of the loop of update_decorations for one sticker, with target
\* the value of sticker_animation_state_target for it.
update_decoration(animation_state, target, max_delta_selected, max_delta_hovered) ==
    [selected |-> add_delta_toward_target(animation_state.selected, target.selected,
                                          max_delta_selected),
     hovered |-> IF target.hovered = ONE
                 THEN ONE
                 ELSE add_delta_toward_target(animation_state.hovered, target.hovered,
                                              max_delta_hovered)]

\* PuzzleController::update_decorations.  targets[sticker] is what
\* sticker_animation_state_target returns for the sticker.
update_decorations(c, delta, selection_fade_duration, hover_fade_duration, targets) ==
    [c EXCEPT !.sticker_animation_states =
        [sticker \in Stickers |->
            update_decoration(c.sticker_animation_states[sticker], targets[sticker],
                              max_delta(delta, selection_fade_duration),
                              max_delta(delta, hover_fade_duration))]]

\* The snapshot geometry() computes: the projection of displayed under params.
snapshot_of(c, params) == [puzzle |-> c.displayed, params |-> params]

\* geometry that keeps the cached snapshot whatever the params are.
geometry_ignores_key(c, params_in) ==
    LET params == <<params_in[1], "identity">>
        c2 == [c EXCEPT !.cached_geometry_params = <<params>>]
        regenerate == c2.cached_geometry = <<>>
        ret == IF regenerate THEN snapshot_of(c2, params) ELSE c2.cached_geometry[1]
    IN  [c |-> [c2 EXCEPT !.cached_geometry = <<ret>>],
         ret |-> ret, regenerated |-> regenerate]

\* PuzzleController::geometry.  params is <<view, model_transform>>; the
\* model transform is overwritten by the identity before anything else.
geometry(c, params_in) ==
    LET params == <<params_in[1], "identity">>
        c1 == IF c.cached_geometry_params # <<params>>
              THEN [c EXCEPT !.cached_geometry = <<>>]
              ELSE c
        c2 == [c1 EXCEPT !.cached_geometry_params = <<params>>]
        regenerate == c2.cached_geometry = <<>>
        ret == IF regenerate THEN snapshot_of(c2, params) ELSE c2.cached_geometry[1]
    IN  [c |-> [c2 EXCEPT !.cached_geometry = <<ret>>],
         ret |-> ret, regenerated |-> regenerate]

(***************************************************************************)
(* Observers.  They record what the calls did and never influence them.    *)
(***************************************************************************)
\* op: the method called; val: what it returned ("unit" for a method that
\* returns nothing); applied: how many queued twists the call applied to
\* `displayed`.
Call(op, val, applied) == [op |-> op, val |-> val, applied |-> applied]

\* The round-trip observer follows one run of the shape
\*   twist() x n, then undo() x n, then redo() x n
\* from the state where it was started: `pre` is latest before the first
\* twist, `post` latest after the last one, `accepted` whether every twist
\* returned Ok, `pushed` whether none of them was the inverse of the last
\* undo entry when it was made, `ok` whether every undo and redo so far
\* returned Ok.  The phase "scrambled" marks the calls of undo() that come
\* right after a scramble_full().
rt_idle ==
    [phase |-> "idle", pre |-> Puzzle_new, post |-> Puzzle_new,
     n |-> 0, k |-> 0, accepted |-> TRUE, pushed |-> TRUE, ok |-> TRUE]

rt_twist(o, c, t, r) ==
    IF o.phase = "twist" /\ o.n < MaxSeq
    THEN [o EXCEPT !.n = o.n + 1, !.post = r.c.latest,
                   !.accepted = o.accepted /\ r.ret = "Ok",
                   !.pushed = o.pushed /\ ~(c.undo_buffer # <<>> /\
                                             t = reverse_twist(Last(c.undo_buffer)))]
    ELSE rt_idle

rt_undo(o, r) ==
    IF o.phase = "scrambled"
    THEN o
    ELSE IF o.phase = "twist" /\ o.n > 0
    THEN [o EXCEPT !.phase = "undo", !.k = 1, !.ok = (r.ret = "Ok")]
    ELSE IF o.phase = "undo" /\ o.k < o.n
    THEN [o EXCEPT !.k = o.k + 1, !.ok = o.ok /\ r.ret = "Ok"]
    ELSE rt_idle

rt_redo(o, r) ==
    IF o.phase = "undo" /\ o.k = o.n
    THEN [o EXCEPT !.phase = "redo", !.k = 1, !.ok = o.ok /\ r.ret = "Ok"]
    ELSE IF o.phase = "redo" /\ o.k < o.n
    THEN [o EXCEPT !.k = o.k + 1, !.ok = o.ok /\ r.ret = "Ok"]
    ELSE rt_idle

(***************************************************************************)
(* Inputs.                                                                 *)
(***************************************************************************)
\* Frames: <<delta, prefs.twist_duration, prefs.dynamic_twist_speed>>, the times
\* in twelfths of a second: a frame of no length, a quarter of a twist, the
\* same with dynamic speed, a whole twist, and twist durations of zero
\* (0/0 and 3/0) and below zero.
Frames ==
    {<<0, 12, FALSE>>, <<3, 12, FALSE>>, <<3, 12, TRUE>>, <<12, 12, FALSE>>,
     <<0, 0, FALSE>>, <<3, 0, FALSE>>, <<3, -12, FALSE>>}
\* The frames used next to geometry(): a quarter of a twist and a whole twist.
CacheFrames == {<<3, 12, FALSE>>, <<12, 12, FALSE>>}
\* The frames on which the increments of a short and a long queue are compared:
\* <<delta, prefs.twist_duration>>, dynamic_twist_speed being on.  No time, a
\* twenty-fourth, a quarter and a half of a twist, and twist durations of zero
\* and below zero.
IncrementFrames ==
    {<<0, 12>>, <<1, 24>>, <<3, 12>>, <<6, 12>>, <<0, 0>>, <<3, 0>>, <<3, -12>>}
\* The twists the puzzle algebra is exercised with: every rotation of the
\* topology with seeds that it moves in a cycle as long as its order (1 under
\* a three-cycle), in a shorter cycle (4 under a rotation of order 6), or not
\* at all (3 under a swap of 1 and 2), alone and in pairs; <<1, 2>> names two
\* seeds that many rotations put in one orbit.
SeedLists == {<<1>>, <<3>>, <<4>>, <<1, 4>>, <<1, 2>>}
AlgebraTwists == [rotation : Orientations, initial_pieces : SeedLists]
\* StickerGeometryParams: <<view, model_transform>>.
Params == {<<"view1", "identity">>, <<"view1", "tilted">>, <<"view2", "identity">>}

(***************************************************************************)
(* Initial state and the calls.                                            *)
(***************************************************************************)
Init ==
    /\ displayed = new.displayed
    /\ next_displayed = new.next_displayed
    /\ latest = new.latest
    /\ twist_queue = new.twist_queue
    /\ queue_max = new.queue_max
    /\ progress = new.progress
    /\ is_unsaved = new.is_unsaved
    /\ scramble_state = new.scramble_state
    /\ scramble = new.scramble
    /\ undo_buffer = new.undo_buffer
    /\ redo_buffer = new.redo_buffer
    /\ cached_geometry = new.cached_geometry
    /\ cached_geometry_params = new.cached_geometry_params
    /\ sticker_animation_states = new.sticker_animation_states
    /\ panicked = FALSE
    /\ last_call = Call("new", "unit", 0)
    /\ trues = 0
    /\ rt = rt_idle

\* Frames of update_decorations: <<delta, prefs.selection_fade_duration,
\* prefs.hover_fade_duration>> in twelfths of a second: a frame of no length,
\* a quarter and a half of a fade, fade durations of zero (3/0 and 0/0), and a
\* selection fade duration below zero.
DecorFrames ==
    {<<0, 12, 12>>, <<3, 12, 6>>, <<3, 0, 0>>, <<0, 0, 0>>, <<3, -12, 12>>}

\* What sticker_animation_state_target can return for the stickers: selected
\* and hovered are each 0.0 or 1.0, as the selection and the hovered sticker,
\* which the host sets between frames, have it.
DecorTargets == [Stickers -> [selected : {0, ONE}, hovered : {0, ONE}]]

\* Frames of no length with a twist duration that is not zero, and frames
\* that take time: a quarter of a twist, a whole twist, and a quarter of a
\* second at a twist duration of zero.
ZeroFrames == {<<0, 12, FALSE>>}
PositiveFrames == {<<3, 12, FALSE>>, <<12, 12, FALSE>>, <<3, 0, FALSE>>}

\* One frame of the decorations, half a selection fade long, and one target
\* for it: no sticker selected and the first one hovered.
EffectDecorFrames == {<<6, 12, 12>>}
EffectDecorTargets ==
    {[sticker \in Stickers |-> [selected |-> 0, hovered |-> IF sticker = 1 THEN ONE ELSE 0]]}

\* Paths of log files.
Paths == {"a.log", "b.log"}

\* Whether a call that leaves the controller as c stays within the bounds.
WithinBounds(c) ==
    /\ Len(c.twist_queue) <= MaxQueue
    /\ Len(c.undo_buffer) <= MaxHist

Twist(t) ==
    /\ ~panicked
    /\ LET r == twist(Self, t)
       IN  /\ WithinBounds(r.c)
           /\ Becomes(r.c)
           /\ last_call' = Call("twist", r.ret, 0)
           /\ rt' = rt_twist(rt, Self, t, r)
    /\ UNCHANGED <<panicked, trues>>

\* twist(), with queue and history let grow to LongQueue.
QueueTwist(t) ==
    /\ ~panicked
    /\ LET r == twist(Self, t)
       IN  /\ Len(r.c.twist_queue) <= LongQueue
           /\ Len(r.c.undo_buffer) <= LongQueue
           /\ Becomes(r.c)
           /\ last_call' = Call("twist", r.ret, 0)
           /\ rt' = rt_twist(rt, Self, t, r)
    /\ UNCHANGED <<panicked, trues>>

\* twist() with a twist of AlgebraTwists; the model explores one such call
\* after a history of the twists of Twists.
AlgebraTwist(t) ==
    /\ \A i \in 1..Len(undo_buffer) : undo_buffer[i] \in Twists
    /\ Twist(t)

Undo ==
    /\ ~panicked
    /\ LET r == undo(Self)
       IN  /\ WithinBounds(r.c)
           /\ Becomes(r.c)
           /\ last_call' = Call("undo", r.ret, 0)
           /\ rt' = rt_undo(rt, r)
    /\ UNCHANGED <<panicked, trues>>

Redo ==
    /\ ~panicked
    /\ LET r == redo(Self)
       IN  /\ WithinBounds(r.c)
           /\ Becomes(r.c)
           /\ last_call' = Call("redo", r.ret, 0)
           /\ rt' = rt_redo(rt, r)
    /\ UNCHANGED <<panicked, trues>>

UpdateGeometry(delta, twist_duration, dynamic_twist_speed) ==
    /\ ~panicked
    /\ \E r \in {update_geometry(Self, delta, twist_duration, dynamic_twist_speed)} :
           /\ Becomes(r.c)
           /\ panicked' = r.panic
           /\ last_call' = Call("update_geometry", IF r.panic THEN "panic" ELSE "unit",
                                 Len(twist_queue) - Len(r.c.twist_queue))
    /\ UNCHANGED <<trues, rt>>

CatchUp ==
    /\ ~panicked
    /\ LET r == catch_up(Self)
       IN  /\ Becomes(r.c)
           /\ panicked' = r.panic
           /\ last_call' = Call("catch_up", IF r.panic THEN "panic" ELSE "unit",
                                 Len(twist_queue))
    /\ UNCHANGED <<trues, rt>>

Reset ==
    /\ ~panicked
    /\ Becomes(reset(Self))
    /\ last_call' = Call("reset", "unit", 0)
    /\ trues' = 0
    /\ rt' = rt_idle
    /\ UNCHANGED panicked

ScrambleN(n) ==
    /\ ~panicked
    /\ LET r == scramble_n(Self, n)
       IN  /\ Becomes(r.c)
           /\ panicked' = r.panic
           /\ last_call' = Call("scramble_n", r.ret, 0)
    /\ trues' = 0
    /\ rt' = rt_idle

ScrambleFull ==
    /\ ~panicked
    /\ LET r == scramble_full(Self)
       IN  /\ Becomes(r.c)
           /\ panicked' = r.panic
           /\ last_call' = Call("scramble_full", r.ret, 0)
           /\ rt' = IF r.ret = "Ok" THEN [rt_idle EXCEPT !.phase = "scrambled"] ELSE rt_idle
    /\ trues' = 0

CheckJustSolved ==
    /\ ~panicked
    /\ LET r == check_just_solved(Self)
       IN  /\ Becomes(r.c)
           /\ last_call' = Call("check_just_solved", r.ret, 0)
           /\ trues' = IF r.ret = "true" /\ trues < 2 THEN trues + 1 ELSE trues
    /\ UNCHANGED <<panicked, rt>>

TwistCount(metric) ==
    /\ ~panicked
    /\ last_call' = Call("twist_count", ToString(twist_count(Self, metric)), 0)
    /\ UNCHANGED <<ctl_vars, panicked, trues, rt>>

HasBeenFullyScrambled ==
    /\ ~panicked
    /\ last_call' = Call("has_been_fully_scrambled",
                         IF has_been_fully_scrambled(Self) THEN "true" ELSE "false", 0)
    /\ UNCHANGED <<ctl_vars, panicked, trues, rt>>

\* update_decorations(), with the stored values let drift up to MaxDrift
\* (in units of 1.0) out of the range 0.0..=1.0.
UpdateDecorations(delta, selection_fade_duration, hover_fade_duration, targets) ==
    /\ ~panicked
    /\ LET c == update_decorations(Self, delta, selection_fade_duration,
                                   hover_fade_duration, targets)
       IN  /\ \A sticker \in Stickers :
                  /\ c.sticker_animation_states[sticker].selected
                         \in (0 - MaxDrift * ONE)..((1 + MaxDrift) * ONE)
                  /\ c.sticker_animation_states[sticker].hovered
                         \in (0 - MaxDrift * ONE)..((1 + MaxDrift) * ONE)
           /\ Becomes(c)
    /\ last_call' = Call("update_decorations", "unit", 0)
    /\ UNCHANGED <<panicked, trues, rt>>

CurrentTwist ==
    /\ ~panicked
    /\ last_call' = Call("current_twist",
                         IF current_twist(Self) = <<>> THEN "None" ELSE "Some", 0)
    /\ UNCHANGED <<ctl_vars, panicked, trues, rt>>

\* Observer only: whether the host still makes calls on the history.
InputsOpen == rt.phase \notin {"zero_frames", "positive_frames"}

\* Observer only: the host stops making calls on the history; kind says what
\* frames it renders from now on.
EndInputs(kind) ==
    /\ ~panicked
    /\ InputsOpen
    /\ rt' = [rt_idle EXCEPT !.phase = kind]
    /\ UNCHANGED <<ctl_vars, panicked, last_call, trues>>

HostTwist(t) == InputsOpen /\ Twist(t)
HostUndo == InputsOpen /\ Undo
HostRedo == InputsOpen /\ Redo
HostCatchUp == InputsOpen /\ CatchUp

\* update_geometry() with a frame of no length, and with one that takes time.
HostZeroFrame ==
    /\ rt.phase # "positive_frames"
    /\ \E f \in ZeroFrames : UpdateGeometry(f[1], f[2], f[3])

HostPositiveFrame ==
    /\ rt.phase # "zero_frames"
    /\ \E f \in PositiveFrames : UpdateGeometry(f[1], f[2], f[3])

\* load_file is an associated function: it builds a controller of its own and
\* does not touch the one at hand.
LoadFile(path) ==
    /\ ~panicked
    /\ LET r == load_file(path)
       IN  /\ panicked' = r.panic
           /\ last_call' = Call("load_file", r.ret, 0)
    /\ UNCHANGED <<ctl_vars, trues, rt>>

SaveFile(path) ==
    /\ ~panicked
    /\ LET r == save_file(Self, path)
       IN  /\ Becomes(r.c)
           /\ panicked' = r.panic
           /\ last_call' = Call("save_file", r.ret, 0)
    /\ UNCHANGED <<trues, rt>>

Geometry(params) ==
    /\ ~panicked
    /\ LET r == geometry(Self, params)
       IN  /\ Becomes(r.c)
           /\ last_call' = Call("geometry", IF r.regenerated THEN "regenerated" ELSE "cached", 0)
    /\ UNCHANGED <<panicked, trues, rt>>

\* Observer only: start following a round trip from the current state.
BeginRoundTrip ==
    /\ ~panicked
    /\ rt.phase = "idle"
    /\ rt' = [rt_idle EXCEPT !.phase = "twist", !.pre = latest, !.post = latest]
    /\ UNCHANGED <<ctl_vars, panicked, last_call, trues>>

\* Every call of the controller but geometry(), whose only effect is on the
\* geometry cache, which no other method reads.
Next ==
    \/ \E t \in Twists : Twist(t)
    \/ Undo
    \/ Redo
    \/ \E f \in Frames : UpdateGeometry(f[1], f[2], f[3])
    \/ CatchUp
    \/ Reset
    \/ \E n \in 0..MaxScramble : ScrambleN(n)
    \/ ScrambleFull
    \/ CheckJustSolved

Spec == Init /\ [][Next]_vars

\* The calls on the history and the animation, with the round-trip observer
\* started at any moment.
NextRoundTrip ==
    \/ BeginRoundTrip
    \/ \E t \in Twists : Twist(t)
    \/ Undo
    \/ Redo
    \/ \E f \in Frames : UpdateGeometry(f[1], f[2], f[3])
    \/ CatchUp
    \/ Reset

SpecRoundTrip == Init /\ [][NextRoundTrip]_vars

\* The calls that read or write the geometry cache or change what it is a
\* picture of: geometry() itself, the history and animation calls, and reset().
NextGeometry ==
    \/ \E params \in Params : Geometry(params)
    \/ \E t \in Twists : Twist(t)
    \/ Undo
    \/ Redo
    \/ \E f \in CacheFrames : UpdateGeometry(f[1], f[2], f[3])
    \/ CatchUp
    \/ Reset

SpecGeometry == Init /\ [][NextGeometry]_vars

\* The controller brought to some state by the twists of Twists and then
\* given one of AlgebraTwists.
NextAlgebra ==
    \/ \E t \in Twists : Twist(t)
    \/ \E t \in AlgebraTwists : AlgebraTwist(t)
    \/ CatchUp
    \/ Reset

SpecAlgebra == Init /\ [][NextAlgebra]_vars

\* The calls that build and read the history.
NextHistory ==
    \/ \E t \in Twists : Twist(t)
    \/ Undo
    \/ Redo
    \/ CatchUp
    \/ Reset
    \/ \E metric \in Metrics : TwistCount(metric)

SpecHistory == Init /\ [][NextHistory]_vars

\* The calls that scramble, solve and ask about the scramble.
NextScramble ==
    \/ \E t \in Twists : Twist(t)
    \/ Undo
    \/ CatchUp
    \/ Reset
    \/ \E n \in 0..MaxScramble : ScrambleN(n)
    \/ ScrambleFull
    \/ CheckJustSolved
    \/ HasBeenFullyScrambled

SpecScramble == Init /\ [][NextScramble]_vars

\* The calls on the history and on log files.
NextFile ==
    \/ \E t \in Twists : Twist(t)
    \/ Undo
    \/ Redo
    \/ CatchUp
    \/ Reset
    \/ \E path \in Paths : LoadFile(path)
    \/ \E path \in Paths : SaveFile(path)

SpecFile == Init /\ [][NextFile]_vars

\* The frames of the decorations under every selection and hover.
NextDecorations ==
    \/ \E f \in DecorFrames, targets \in DecorTargets :
           UpdateDecorations(f[1], f[2], f[3], targets)
    \/ Reset

SpecDecorations == Init /\ [][NextDecorations]_vars

\* The host makes calls on the history and renders frames, and at some
\* moment stops making calls on the history; from then on it calls
\* update_geometry() once per frame, with frames that all have no length or
\* that all take time.
NextSettle ==
    \/ \E t \in Twists : HostTwist(t)
    \/ HostUndo
    \/ HostRedo
    \/ \E kind \in {"zero_frames", "positive_frames"} : EndInputs(kind)
    \/ HostZeroFrame
    \/ HostPositiveFrame
    \/ HostCatchUp
    \/ CurrentTwist

\* A frame rendered after the host has stopped making calls on the history.
HostSettleFrame == ~InputsOpen /\ (HostZeroFrame \/ HostPositiveFrame)

\* From then on the host renders frame after frame: a call of
\* update_geometry() that would change the state does not wait for ever.
SpecSettle == Init /\ [][NextSettle]_vars /\ WF_vars(HostSettleFrame)

\* Every call that changes the controller, with few inputs each: one twist,
\* one frame of the animation, one of the decorations, one view.
NextEffects ==
    \/ Twist(U)
    \/ Undo
    \/ Redo
    \/ UpdateGeometry(12, 12, FALSE)
    \/ \E f \in EffectDecorFrames, targets \in EffectDecorTargets :
           UpdateDecorations(f[1], f[2], f[3], targets)
    \/ CatchUp
    \/ Geometry(<<"view1", "identity">>)
    \/ Reset
    \/ \E n \in 0..MaxScramble : ScrambleN(n)
    \/ ScrambleFull
    \/ CheckJustSolved

SpecEffects == Init /\ [][NextEffects]_vars

\* Twists queued up to LongQueue deep and frames with dynamic_twist_speed on.
NextIncrement ==
    \/ QueueTwist(U)
    \/ \E f \in IncrementFrames : UpdateGeometry(f[1], f[2], TRUE)

SpecIncrement == Init /\ [][NextIncrement]_vars

(***************************************************************************)
(* Properties.                                                             *)
(***************************************************************************)
RECURSIVE apply_in_order(_, _)
apply_in_order(puzzle, twists) ==
    IF twists = <<>>
    THEN puzzle
    ELSE apply_in_order(PuzzleTrait_twist(puzzle, Head(twists)), Tail(twists))

\* t is the inverse of the most recent undo entry.
InverseOfLastUndo(t) ==
    undo_buffer # <<>> /\ t = reverse_twist(Last(undo_buffer))

\* C1: in every reachable state, the twists of twist_queue applied to
\* `displayed` front first give exactly `latest`.
C1_QueueLeadsToLatest ==
    apply_in_order(displayed, twist_queue) = latest

\* Two different twists are queued behind a displayed state that is no longer
\* the solved one, and applying them back first would not give latest.
C1_Witness ==
    /\ Len(twist_queue) = 2
    /\ displayed # Puzzle_new
    /\ apply_in_order(displayed, <<twist_queue[2], twist_queue[1]>>) # latest

\* C2: no expect or assert_eq of the controller ever fires, and right after
\* catch_up() displayed equals latest, the queue is empty and progress is 0.
C2_CatchUpSyncs ==
    /\ ~panicked
    /\ last_call.op = "catch_up" =>
           /\ displayed = latest
           /\ twist_queue = <<>>
           /\ progress = 0

\* catch_up() has just applied two queued twists and left an unsolved puzzle.
C2_Witness ==
    /\ last_call.op = "catch_up"
    /\ last_call.applied = 2
    /\ ~puzzle_is_solved(displayed)

\* The n undo() calls so far all succeeded and the last brought latest back to
\* where it was before the twists; the n redo() calls after them all
\* succeeded and the last brought latest to where the twists had left it.
RoundTripHolds ==
    /\ rt.phase \in {"undo", "redo"} => rt.ok
    /\ rt.phase = "undo" /\ rt.k = rt.n => latest = rt.pre
    /\ rt.phase = "redo" /\ rt.k = rt.n => latest = rt.post

C5_RedoEmptyAfterTwist ==
    (last_call.op = "twist" /\ last_call.val = "Ok") => redo_buffer = <<>>

\* C5, amended: after a twist(t) that returned Ok the redo stack is empty if t
\* was pushed, and holds exactly the undone entry if the call was rerouted to
\* undo().
C5_RedoAfterTwist ==
    [][\A t \in Twists :
         (Twist(t) /\ last_call'.val = "Ok") =>
             IF InverseOfLastUndo(t)
             THEN redo_buffer' = <<Last(undo_buffer)>>
             ELSE redo_buffer' = <<>>]_vars

\* A twist has just cancelled the second entry of a history of two.
C5_Witness ==
    /\ last_call.op = "twist" /\ last_call.val = "Ok"
    /\ Len(redo_buffer) = 1
    /\ Len(undo_buffer) = 1

\* C6: a twist(t) that returns Ok and does not cancel the last undo entry
\* applies t to latest, appends t to twist_queue and to undo_buffer and sets
\* is_unsaved; on a new controller twist(U) gives undo_buffer = <<U>> and a
\* puzzle that is not solved after catch_up(); is_unsaved is false after
\* new()/reset() and true after a successful twist, undo or redo.
C6_PushBranch ==
    /\ [][\A t \in Twists :
            (~InverseOfLastUndo(t) /\ Twist(t) /\ last_call'.val = "Ok") =>
                /\ latest' = PuzzleTrait_twist(latest, t)
                /\ twist_queue' = Append(twist_queue, t)
                /\ undo_buffer' = Append(undo_buffer, t)
                /\ is_unsaved']_vars
    /\ [][(Self = new /\ Twist(U)) =>
                /\ undo_buffer' = <<U>>
                /\ ~is_solved(catch_up(Self').c)]_vars
    /\ [][/\ last_call'.op \in {"new", "reset"} => ~is_unsaved'
          /\ (last_call'.op \in {"twist", "undo", "redo"} /\ last_call'.val = "Ok")
                 => is_unsaved']_vars

\* Two twists have been pushed one after the other.
C6_Witness ==
    /\ last_call.op = "twist" /\ last_call.val = "Ok"
    /\ undo_buffer = <<U, R>>
    /\ twist_queue = <<U, R>>
    /\ redo_buffer = <<>>
    /\ is_unsaved

\* C7: undo() on an empty undo_buffer returns "Nothing to undo", redo() on an
\* empty redo_buffer returns "Nothing to redo", and neither changes any field
\* of the controller.
C7_NothingToUndoOrRedo ==
    [][/\ (undo_buffer = <<>> /\ Undo) =>
              (last_call'.val = "Nothing to undo" /\ UNCHANGED ctl_vars)
       /\ (redo_buffer = <<>> /\ Redo) =>
              (last_call'.val = "Nothing to redo" /\ UNCHANGED ctl_vars)]_vars

\* redo() has just failed in the middle of an animation, with history to undo.
C7_Witness ==
    /\ last_call.op = "redo" /\ last_call.val = "Nothing to redo"
    /\ undo_buffer # <<>>
    /\ progress > 0

\* C8 as claimed: a twist(), undo() or redo() that returns an error leaves
\* latest, twist_queue, undo_buffer, redo_buffer and is_unsaved as they were.
C8_ErrorsChangeNothing ==
    [][(last_call'.op \in {"twist", "undo", "redo"} /\ last_call'.val # "Ok") =>
           UNCHANGED <<latest, twist_queue, undo_buffer, redo_buffer, is_unsaved>>]_vars

\* C9: between a scramble and the next reset or scramble, check_just_solved()
\* returns true at most once, and a call returns true exactly when displayed
\* is solved and no earlier call of the episode returned true.
C9_SolvedOncePerEpisode ==
    [][/\ trues' <= 1
       /\ (scramble_state # "None" /\ last_call'.op = "check_just_solved") =>
              (last_call'.val = "true" <=> (puzzle_is_solved(displayed) /\ trues = 0))]_vars

\* A later call of the episode, made while displayed is still solved,
\* has returned false.
C9_Witness ==
    /\ last_call.op = "check_just_solved" /\ last_call.val = "false"
    /\ trues = 1
    /\ scramble_state = "Solved"
    /\ puzzle_is_solved(displayed)

\* C10: check_just_solved() sets scramble_state to Solved and returns true if
\* scramble_state is Partial or Full and displayed is solved; otherwise it
\* returns false and changes nothing.
C10_CheckJustSolved ==
    [][last_call'.op = "check_just_solved" =>
           IF scramble_state \in {"Partial", "Full"} /\ puzzle_is_solved(displayed)
           THEN /\ last_call'.val = "true"
                /\ scramble_state' = "Solved"
           ELSE /\ last_call'.val = "false"
                /\ UNCHANGED ctl_vars]_vars

\* The call has returned true with displayed solved and latest not.
C10_Witness ==
    /\ last_call.op = "check_just_solved" /\ last_call.val = "true"
    /\ scramble_state = "Solved"
    /\ puzzle_is_solved(displayed)
    /\ ~puzzle_is_solved(latest)

\* C11 as claimed: scramble_n(0) leaves displayed and latest solved and the
\* scramble state None.
C11_ScrambleZeroIsNone ==
    [][ScrambleN(0) =>
           /\ scramble_state' = "None"
           /\ puzzle_is_solved(displayed')
           /\ puzzle_is_solved(latest')]_vars

\* C12: after scramble_n(n) returns Ok the scramble state is Partial and after
\* scramble_full() returns Ok it is Full; in both cases undo_buffer and
\* redo_buffer are empty, the scramble list holds at most the requested number
\* of twists, the twist queue is empty and displayed equals latest.
C12_AfterScramble ==
    /\ [][\A n \in 0..MaxScramble :
            (ScrambleN(n) /\ last_call'.val = "Ok") =>
                /\ scramble_state' = "Partial"
                /\ undo_buffer' = <<>> /\ redo_buffer' = <<>>
                /\ Len(scramble') <= n
                /\ twist_queue' = <<>>
                /\ displayed' = latest']_vars
    /\ [][(ScrambleFull /\ last_call'.val = "Ok") =>
                /\ scramble_state' = "Full"
                /\ undo_buffer' = <<>> /\ redo_buffer' = <<>>
                /\ Len(scramble') <= scramble_moves_count
                /\ twist_queue' = <<>>
                /\ displayed' = latest']_vars

\* scramble_n() has just returned Ok.
C12_Witness ==
    /\ last_call.op = "scramble_n" /\ last_call.val = "Ok"
    /\ scramble_state = "Partial"
    /\ undo_buffer = <<>> /\ redo_buffer = <<>>
    /\ twist_queue = <<>>
    /\ displayed = latest

C14_ResetIsNew ==
    [][Reset =>
           /\ Self' = new
           /\ scramble_state' = "None"
           /\ puzzle_is_solved(displayed')
           /\ puzzle_is_solved(next_displayed')
           /\ puzzle_is_solved(latest')
           /\ twist_queue' = <<>> /\ undo_buffer' = <<>> /\ redo_buffer' = <<>>
           /\ scramble' = <<>>
           /\ progress' = 0 /\ queue_max' = 0
           /\ ~is_unsaved'
           /\ cached_geometry' = <<>> /\ cached_geometry_params' = <<>>]_vars

\* reset() has just returned.
C14_Witness ==
    /\ last_call.op = "reset"
    /\ Self = new

\* C15: in every reachable state progress lies between 0.0 and 1.0, whatever
\* frames update_geometry() was given.
C15_ProgressInUnitInterval ==
    0 <= progress /\ progress <= ONE

\* Three quarter frames have been added up.
C15_Witness ==
    /\ last_call.op = "update_geometry"
    /\ progress = 3 * (ONE \div 4)

\* C16: update_geometry() on an empty twist queue sets queue_max to 0 and
\* changes no other field of the controller.
C16_IdleFrame ==
    [][\A f \in CacheFrames :
         (twist_queue = <<>> /\ UpdateGeometry(f[1], f[2], f[3])) =>
             /\ queue_max' = 0
             /\ UNCHANGED <<displayed, next_displayed, latest, twist_queue, progress,
                            is_unsaved, scramble_state, scramble, undo_buffer,
                            redo_buffer, cached_geometry, cached_geometry_params>>]_vars

\* update_geometry() has just run on an empty queue with a history and a
\* cached geometry in place.
C16_Witness ==
    /\ last_call.op = "update_geometry" /\ last_call.applied = 0
    /\ twist_queue = <<>>
    /\ queue_max = 0
    /\ undo_buffer # <<>>
    /\ cached_geometry # <<>>

\* C17: an update_geometry() call that brings progress to 1.0 or more removes
\* the front twist of the queue and only that one, applies it to displayed
\* and sets progress to 0; a call that does not leaves the queue and displayed
\* alone; and the expect on the application never fires.
C17_FrontTwistCompletes ==
    [][/\ ~panicked'
       /\ \A f \in Frames :
            (twist_queue # <<>> /\ last_call'.op = "update_geometry" /\
                 UpdateGeometry(f[1], f[2], f[3])) =>
                IF progress + twist_delta(Len(twist_queue), f[1], f[2], f[3]) >= ONE
                THEN /\ twist_queue' = Tail(twist_queue)
                     /\ displayed' = PuzzleTrait_twist(displayed, Head(twist_queue))
                     /\ progress' = 0
                ELSE UNCHANGED <<twist_queue, displayed>>]_vars

\* A frame has just completed the first of two queued twists.
C17_Witness ==
    /\ last_call.op = "update_geometry" /\ last_call.applied = 1
    /\ Len(twist_queue) = 1
    /\ progress = 0
    /\ ~puzzle_is_solved(displayed)

\* C18 as claimed: on a non-empty queue, an increment that is not finite,
\* negative or below MIN_TWIST_DELTA (a zero increment, which would stall,
\* included) is replaced by 1.0, so that the call completes the current twist.
C18_BelowMinimumCompletes ==
    [][\A f \in Frames :
         (twist_queue # <<>> /\ last_call'.op = "update_geometry" /\
              UpdateGeometry(f[1], f[2], f[3])) =>
             LET raw == raw_twist_delta(Len(twist_queue), f[1], f[2], f[3])
             IN  (raw[1] # "fin" \/ raw[2] < 0 \/ raw[2] < MIN_TWIST_DELTA) =>
                     (twist_queue' = Tail(twist_queue) /\ progress' = 0)]_vars

\* C18, amended: on a non-empty queue, an increment that is not finite,
\* negative or at least MIN_TWIST_DELTA is replaced by 1.0 and the call
\* completes the current twist; an increment from 0 up to but not including
\* MIN_TWIST_DELTA is added as it is, and the twist completes only if
\* progress thereby reaches 1.0.
C18_AtLeastMinimumCompletes ==
    [][\A f \in Frames :
         (twist_queue # <<>> /\ last_call'.op = "update_geometry" /\
              UpdateGeometry(f[1], f[2], f[3])) =>
             LET len == Len(twist_queue)
                 raw == raw_twist_delta(len, f[1], f[2], f[3])
                 td == twist_delta(len, f[1], f[2], f[3])
             IN  IF raw[1] # "fin" \/ raw[2] < 0 \/ raw[2] >= MIN_TWIST_DELTA
                 THEN /\ td = ONE
                      /\ twist_queue' = Tail(twist_queue)
                      /\ progress' = 0
                 ELSE /\ td = raw[2]
                      /\ IF progress + raw[2] >= ONE
                         THEN twist_queue' = Tail(twist_queue) /\ progress' = 0
                         ELSE twist_queue' = twist_queue /\ progress' = progress + raw[2]]_vars

\* A quarter of a twist has been added to the progress of the second of two
\* queued twists, and no twist completed.
C18_Witness ==
    /\ last_call.op = "update_geometry" /\ last_call.applied = 0
    /\ progress = ONE \div 4
    /\ Len(twist_queue) = 1
    /\ queue_max = 2

\* What a frame on a queue of len twists does to progress and the queue, given
\* the increment td it adds.
FrameAdds(td) ==
    IF progress + td >= ONE
    THEN progress' = 0 /\ twist_queue' = Tail(twist_queue)
    ELSE progress' = progress + td /\ twist_queue' = twist_queue

\* C19 as claimed: with dynamic_twist_speed on, the increment a frame adds
\* when 4 twists are queued is greater than the one the same frame adds when
\* 1 twist is queued, for every delta and twist_duration.
C19_FourAlwaysFaster ==
    [][\A f \in IncrementFrames :
         (Len(twist_queue) = 4 /\ last_call'.op = "update_geometry" /\
              UpdateGeometry(f[1], f[2], TRUE)) =>
             /\ FrameAdds(twist_delta(4, f[1], f[2], TRUE))
             /\ twist_delta(4, f[1], f[2], TRUE) > twist_delta(1, f[1], f[2], TRUE)]_vars

\* C19, amended: with dynamic_twist_speed on, the increment a frame adds when
\* 4 twists are queued is greater than the one it adds when 1 twist is queued
\* if delta / twist_duration is above 0 and below MIN_TWIST_DELTA; if it is 0,
\* at least MIN_TWIST_DELTA, negative or not finite, the two are equal.
C19_FourFasterBelowMinimum ==
    [][\A f \in IncrementFrames :
         /\ (Len(twist_queue) = 4 /\ last_call'.op = "update_geometry" /\
                  UpdateGeometry(f[1], f[2], TRUE)) =>
                 LET four == twist_delta(4, f[1], f[2], TRUE)
                     one == twist_delta(1, f[1], f[2], TRUE)
                     base == base_speed(f[1], f[2])
                 IN  /\ FrameAdds(four)
                     /\ IF base[1] = "fin" /\ 0 < base[2] /\ base[2] < MIN_TWIST_DELTA
                        THEN four > one
                        ELSE four = one
         /\ (Len(twist_queue) = 1 /\ last_call'.op = "update_geometry" /\
                  UpdateGeometry(f[1], f[2], TRUE)) =>
                 FrameAdds(twist_delta(1, f[1], f[2], TRUE))]_vars

\* A frame of a twenty-fourth of a twist has just been added with 4 twists
\* queued: more than a twenty-fourth, and less than a whole twist.
C19_Witness ==
    /\ last_call.op = "update_geometry" /\ last_call.applied = 0
    /\ Len(twist_queue) = 4
    /\ progress = twist_delta(4, 1, 24, TRUE)
    /\ progress > twist_delta(1, 1, 24, TRUE)
    /\ progress < ONE

\* C20 as claimed: a twist(), undo() or redo() that returns Ok, and an
\* update_geometry() or catch_up() on a non-empty queue, leave no cached
\* geometry behind.
C20_StepsInvalidateCache ==
    [][(\/ last_call'.op \in {"twist", "undo", "redo"} /\ last_call'.val = "Ok"
        \/ last_call'.op \in {"update_geometry", "catch_up"} /\ twist_queue # <<>>)
           => cached_geometry' = <<>>]_vars

\* C21: geometry(params) keeps one snapshot under the key params, with the
\* model transform made the identity: if the key differs from the cached one,
\* or no snapshot is cached, the snapshot is regenerated from displayed; if
\* the key is the cached one and a snapshot is cached, that snapshot is
\* returned as it is; after the call the cache holds the returned snapshot
\* under the key.
C21_GeometryIsMemoized ==
    [][\A params \in Params :
         (last_call'.op = "geometry" /\ Geometry(params)) =>
             LET key == <<params[1], "identity">>
             IN  /\ cached_geometry_params' = <<key>>
                 /\ cached_geometry' = <<geometry(Self, params).ret>>
                 /\ IF cached_geometry_params # <<key>> \/ cached_geometry = <<>>
                    THEN /\ last_call'.val = "regenerated"
                         /\ cached_geometry' = <<[puzzle |-> displayed, params |-> key]>>
                    ELSE /\ last_call'.val = "cached"
                         /\ cached_geometry' = cached_geometry]_vars

\* A second request with the same view has been served from the cache while
\* twists are queued.
C21_Witness ==
    /\ last_call.op = "geometry" /\ last_call.val = "cached"
    /\ cached_geometry_params = <<<<"view2", "identity">>>>
    /\ twist_queue # <<>>

\* C22: twist_count(metric) is the number of undo_buffer entries that
\* can_combine_twists does not merge with the entry before them (the first
\* has none before it); it is at most the length of undo_buffer, 0 when
\* undo_buffer is empty, the same whatever redo_buffer and scramble hold, and
\* the call changes no field of the controller.
C22_TwistCount ==
    [][\A metric \in Metrics :
         (last_call'.op = "twist_count" /\ TwistCount(metric)) =>
             LET n == twist_count(Self, metric)
                 before(i) == IF i = 1 THEN <<>> ELSE <<undo_buffer[i - 1]>>
             IN  /\ last_call'.val = ToString(n)
                 /\ n = Cardinality({i \in 1..Len(undo_buffer) :
                            ~can_combine_twists(before(i), undo_buffer[i], metric)})
                 /\ n <= Len(undo_buffer)
                 /\ undo_buffer = <<>> => n = 0
                 /\ n = twist_count([Self EXCEPT !.redo_buffer = <<>>, !.scramble = <<>>],
                                    metric)
                 /\ UNCHANGED ctl_vars]_vars

\* Two twists of the history have been counted as one move.
C22_Witness ==
    /\ last_call.op = "twist_count" /\ last_call.val = "1"
    /\ Len(undo_buffer) = 2

\* The rotation applied n times to a piece.
RECURSIVE pow_act(_, _, _)
pow_act(rot, n, p) == IF n = 0 THEN p ELSE act(rot, pow_act(rot, n - 1, p))

\* The orbit of a piece under a rotation.
Orbit(start, rot) == {pow_act(rot, n, start) : n \in 0..(Cardinality(Pieces) - 1)}

\* No two seeds of the twist lie in the same orbit of its rotation.
DisjointOrbits(t) ==
    \A i, j \in 1..Len(t.initial_pieces) :
        i # j => Orbit(t.initial_pieces[i], t.rotation)
                     \cap Orbit(t.initial_pieces[j], t.rotation) = {}

\* C23 as claimed: for every twist t whose seeds lie in different orbits,
\* applying t and then rev(t) to a solved puzzle leaves every piece in the
\* identity orientation.
C23_TwistThenReverseIsSolved ==
    [][\A t \in AlgebraTwists :
         (last_call'.op = "twist" /\ last_call'.val = "Ok" /\ DisjointOrbits(t) /\
              puzzle_is_solved(latest) /\ ~InverseOfLastUndo(t) /\ AlgebraTwist(t)) =>
             /\ latest' = PuzzleTrait_twist(latest, t)
             /\ puzzle_is_solved(PuzzleTrait_twist(latest', reverse_twist(t)))]_vars

\* C28 as claimed: twist(t) stores at every position p of every seed's orbit
\* rotation * (the orientation that was at rev(rotation) * p), whatever the
\* length of the orbit; and swap(pos1, pos2, rot) sets pos1 to rot * old[pos2]
\* and pos2 to rev(rot) * old[pos1].
C28_TwistIsPermutationAction ==
    [][\A t \in AlgebraTwists :
         (last_call'.op = "twist" /\ last_call'.val = "Ok" /\ DisjointOrbits(t) /\
              ~InverseOfLastUndo(t) /\ AlgebraTwist(t)) =>
             /\ latest' = PuzzleTrait_twist(latest, t)
             /\ \A i \in 1..Len(t.initial_pieces) :
                    \A p \in Orbit(t.initial_pieces[i], t.rotation) :
                        latest'[p] = mul(t.rotation, latest[act(rev(t.rotation), p)])
             /\ \A pos1, pos2 \in Pieces :
                    pos1 # pos2 =>
                        /\ swap(latest, pos1, pos2, t.rotation)[pos1]
                               = mul(t.rotation, latest[pos2])
                        /\ swap(latest, pos1, pos2, t.rotation)[pos2]
                               = mul(rev(t.rotation), latest[pos1])]_vars

\* The positions cycle(start, rot) hands to swap.
RECURSIVE cycle_visits(_, _, _)
cycle_visits(start, prev, rot) ==
    LET current == act(rot, prev)
    IN  IF current = start THEN {} ELSE {current, prev} \cup cycle_visits(start, current, rot)

\* The part of t.pieces() that comes from the i-th seed.
RECURSIVE SegmentStart(_, _)
SegmentStart(t, i) ==
    IF i = 1
    THEN 1
    ELSE SegmentStart(t, i - 1) + Cardinality(Orbit(t.initial_pieces[i - 1], t.rotation))

Segment(t, i) ==
    SubSeq(pieces(t), SegmentStart(t, i),
           SegmentStart(t, i) + Cardinality(Orbit(t.initial_pieces[i], t.rotation)) - 1)

\* C29: t.pieces() is finite and is made, seed after seed, of the seed
\* followed by every other piece of its orbit once; when the seeds lie in
\* different orbits no piece comes twice; and every position that cycle
\* visits, and so every position twist(t) changes, is among them.
C29_PiecesAreTheOrbits ==
    [][\A t \in AlgebraTwists :
         (last_call'.op = "twist" /\ last_call'.val = "Ok" /\
              undo_buffer' = Append(undo_buffer, t) /\ AlgebraTwist(t)) =>
             LET ps == pieces(t)
                 n == Len(t.initial_pieces)
             IN  /\ Len(ps) = SegmentStart(t, n + 1) - 1
                 /\ \A i \in 1..n :
                        LET seg == Segment(t, i)
                        IN  /\ seg[1] = t.initial_pieces[i]
                            /\ {seg[k] : k \in 1..Len(seg)} = Orbit(t.initial_pieces[i], t.rotation)
                            /\ \A k, l \in 1..Len(seg) : seg[k] = seg[l] => k = l
                 /\ DisjointOrbits(t) => \A k, l \in 1..Len(ps) : ps[k] = ps[l] => k = l
                 /\ \A i \in 1..n :
                        cycle_visits(t.initial_pieces[i], t.initial_pieces[i], rev(t.rotation))
                            \subseteq {ps[k] : k \in 1..Len(ps)}
                 /\ {p \in Pieces : latest'[p] # latest[p]} \subseteq {ps[k] : k \in 1..Len(ps)}]_vars

\* A twist by a rotation of order 6 with one seed in each block has been
\* made; its pieces are the three of the first block and the two of the
\* second.
C29_Witness ==
    /\ last_call.op = "twist" /\ last_call.val = "Ok"
    /\ undo_buffer # <<>>
    /\ Last(undo_buffer) = [rotation |-> <<2, 3, 1, 5, 4>>, initial_pieces |-> <<1, 4>>]
    /\ pieces(Last(undo_buffer)) = <<1, 2, 3, 4, 5>>

\* C24 as claimed: in every state the controller reaches, next_displayed is
\* displayed when the twist queue is empty and displayed with the front
\* queued twist applied when it is not.
C24_ViewsStayConsistent ==
    ~panicked =>
        IF twist_queue = <<>>
        THEN next_displayed = displayed
        ELSE next_displayed = PuzzleTrait_twist(displayed, Head(twist_queue))

C26_FullyScrambledLatches ==
    [][/\ (last_call'.op = "scramble_full" /\ last_call'.val = "Ok")
              => has_been_fully_scrambled(Self')
       /\ (has_been_fully_scrambled(Self) /\
               last_call'.op \notin {"reset", "scramble_n", "scramble_full"})
              => has_been_fully_scrambled(Self')
       /\ scramble_state' \in {"None", "Partial"} => ~has_been_fully_scrambled(Self')
       /\ last_call'.op = "has_been_fully_scrambled"
              => last_call'.val = (IF has_been_fully_scrambled(Self) THEN "true" ELSE "false")]_vars

\* C27 as claimed: save_file() returns an error and leaves every field of the
\* controller, is_unsaved included, as it was; load_file() returns a result;
\* neither of them panics.
C27_FileErrorsAreValues ==
    [][/\ (last_call'.op = "save_file" /\ \E path \in Paths : SaveFile(path)) =>
              /\ last_call'.val \notin {"Ok", "panic"}
              /\ ~panicked'
              /\ UNCHANGED ctl_vars
       /\ (last_call'.op = "load_file" /\ \E path \in Paths : LoadFile(path)) =>
              /\ last_call'.val # "panic"
              /\ ~panicked']_vars

\* C30: twist(), undo() and redo() never change displayed or progress, and
\* when they return Ok latest is at once the puzzle with the twist they queue
\* applied; displayed changes only in update_geometry(), catch_up(), reset(),
\* scramble_n() and scramble_full(); and a call of update_geometry() applies
\* at most one queued twist, the front one, whatever delta is.
C30_WhoChangesWhat ==
    [][/\ last_call'.op \in {"twist", "undo", "redo"} =>
              /\ displayed' = displayed
              /\ progress' = progress
              /\ last_call'.val = "Ok" =>
                     /\ twist_queue' # <<>>
                     /\ twist_queue' = Append(twist_queue, Last(twist_queue'))
                     /\ latest' = PuzzleTrait_twist(latest, Last(twist_queue'))
                     /\ latest' # latest
       /\ displayed' # displayed =>
              last_call'.op \in {"update_geometry", "catch_up", "reset",
                                 "scramble_n", "scramble_full"}
       /\ last_call'.op = "update_geometry" =>
              /\ last_call'.applied \in {0, 1}
              /\ last_call'.applied = 0 => displayed' = displayed
              /\ last_call'.applied = 1 =>
                     /\ displayed' = PuzzleTrait_twist(displayed, Head(twist_queue))
                     /\ twist_queue' = Tail(twist_queue)]_vars

\* With two twists made and latest two twists ahead, update_geometry() has
\* applied one of them to displayed and the other is still queued.
C30_Witness ==
    /\ last_call.op = "update_geometry" /\ last_call.applied = 1
    /\ Len(twist_queue) = 1 /\ Len(undo_buffer) = 2
    /\ displayed # Puzzle_new
    /\ latest = PuzzleTrait_twist(displayed, Head(twist_queue))
    /\ latest # displayed

C32_DecorationsApproachTarget ==
    [][\A f \in DecorFrames, targets \in DecorTargets :
         (last_call'.op = "update_decorations" /\
              UpdateDecorations(f[1], f[2], f[3], targets)) =>
             \A sticker \in Stickers :
                 LET old == sticker_animation_states[sticker]
                     now == sticker_animation_states'[sticker]
                     target == targets[sticker]
                     Between(x, a, b) == (a <= x /\ x <= b) \/ (b <= x /\ x <= a)
                     Dist(a, b) == IF a < b THEN b - a ELSE a - b
                     step_s == max_delta(f[1], f[2])
                     step_h == max_delta(f[1], f[3])
                 IN  /\ Between(now.selected, old.selected, target.selected)
                     /\ Between(now.hovered, old.hovered, target.hovered)
                     /\ step_s[1] = "fin"
                            => Dist(now.selected, old.selected) <= Dist(step_s[2], 0)
                     /\ (step_h[1] = "fin" /\ target.hovered # ONE)
                            => Dist(now.hovered, old.hovered) <= Dist(step_h[2], 0)
                     /\ target.hovered = ONE => now.hovered = ONE
                     /\ step_s[1] # "fin" => now.selected = target.selected
                     /\ step_h[1] # "fin" => now.hovered = target.hovered
                     /\ now.selected \in 0..ONE
                     /\ now.hovered \in 0..ONE]_vars

C34_NoAdjacentInversePair ==
    \A i \in 1..(Len(undo_buffer) - 1) :
        undo_buffer[i + 1] # reverse_twist(undo_buffer[i])

\* redo() has put a twist back on top of another one: the history holds two
\* different twists, neither the reverse of the other.
C34_Witness ==
    /\ last_call.op = "redo" /\ last_call.val = "Ok"
    /\ Len(undo_buffer) = 2
    /\ undo_buffer[2] # reverse_twist(undo_buffer[1])
    /\ undo_buffer[1] # undo_buffer[2]

\* C35 as claimed: when geometry(params) returns the cached snapshot without
\* regenerating it, the snapshot is the one of the current displayed puzzle
\* under params.
C35_CachedSnapshotIsCurrent ==
    [][\A params \in Params :
         (last_call'.op = "geometry" /\ last_call'.val = "cached" /\ Geometry(params)) =>
             /\ cached_geometry' # <<>>
             /\ cached_geometry'[1] = geometry(Self, params).ret
             /\ geometry(Self, params).ret
                    = snapshot_of(Self, <<params[1], "identity">>)]_vars

\* The animation has come to rest: nothing is queued, displayed is latest and
\* current_twist() is None.
AtRest ==
    /\ twist_queue = <<>>
    /\ displayed = latest
    /\ current_twist(Self) = <<>>

C37_ProgressAndCurrentTwist ==
    ~panicked =>
        /\ twist_queue = <<>> => progress = 0
        /\ 0 <= progress /\ progress < ONE
        /\ (current_twist(Self) # <<>>) <=> (twist_queue # <<>>)
        /\ twist_queue # <<>> =>
               /\ current_twist(Self)[1].twist = Head(twist_queue)
               /\ current_twist(Self)[1].progress = TWIST_INTERPOLATION_FN(progress)
        /\ last_call.op = "current_twist" =>
               last_call.val = (IF twist_queue # <<>> THEN "Some" ELSE "None")

\* current_twist() has returned Some while the front twist of two queued
\* ones is half animated.
C37_Witness ==
    /\ last_call.op = "current_twist" /\ last_call.val = "Some"
    /\ Len(twist_queue) = 2
    /\ progress = 600

\* C38: scramble_state and the scramble list change only in reset(),
\* scramble_n(), scramble_full() and check_just_solved(); twist(), undo(),
\* redo(), update_geometry(), update_decorations(), catch_up() and geometry()
\* leave both as they are; the state becomes Solved only from Partial or
\* Full, and stays Solved until the next reset() or scramble.
C38_WhoChangesScramble ==
    [][/\ (scramble_state' # scramble_state \/ scramble' # scramble) =>
              last_call'.op \in {"reset", "scramble_n", "scramble_full", "check_just_solved"}
       /\ last_call'.op \in {"twist", "undo", "redo", "update_geometry",
                             "update_decorations", "catch_up", "geometry"} =>
              UNCHANGED <<scramble_state, scramble>>
       /\ (scramble_state' = "Solved" /\ scramble_state # "Solved") =>
              /\ scramble_state \in {"Partial", "Full"}
              /\ last_call'.op = "check_just_solved"
       /\ (scramble_state = "Solved" /\
               last_call'.op \notin {"reset", "scramble_n", "scramble_full"}) =>
              scramble_state' = "Solved"]_vars

\* The puzzle was scrambled and found solved, then twisted, and the frames of
\* the animation and of the decorations have run: the state is still Solved.
C38_Witness ==
    /\ scramble_state = "Solved"
    /\ last_call.op = "update_decorations"
    /\ undo_buffer # <<>>
    /\ displayed = latest
    /\ ~puzzle_is_solved(displayed)
    /\ cached_geometry # <<>>

\* C39: for every twist t of the topology and every seed of t, the loop of
\* cycle(seed, t.rotation) ends, having called swap exactly (size of the
\* seed's orbit - 1) times, and twist(t) leaves the orientation at every
\* position that is not among t.pieces() as it was.
C39_CycleSwapsAndFrame ==
    [][\A t \in AlgebraTwists :
         (last_call'.op = "twist" /\ last_call'.val = "Ok" /\
              undo_buffer' = Append(undo_buffer, t) /\ AlgebraTwist(t)) =>
             LET ps == pieces(t)
             IN  /\ latest' = PuzzleTrait_twist(latest, t)
                 /\ \A i \in 1..Len(t.initial_pieces) :
                        swaps_of_cycle(t.initial_pieces[i], t.rotation)
                            = Cardinality(Orbit(t.initial_pieces[i], t.rotation)) - 1
                 /\ \A p \in Pieces \ {ps[k] : k \in 1..Len(ps)} :
                        latest'[p] = latest[p]]_vars

\* After twists of the first block, a twist that swaps the two pieces of the
\* second block has been made from seed 4: one swap, and the turned pieces of
\* the first block, which are not among its pieces, are still turned.
C39_Witness ==
    /\ last_call.op = "twist" /\ last_call.val = "Ok"
    /\ undo_buffer # <<>>
    /\ Last(undo_buffer) = [rotation |-> <<1, 2, 3, 5, 4>>, initial_pieces |-> <<4>>]
    /\ pieces(Last(undo_buffer)) = <<4, 5>>
    /\ swaps_of_cycle(4, Last(undo_buffer).rotation) = 1
    /\ latest[1] # identity
    /\ latest[4] # identity

====
